---- MODULE Spec2Model ----
(***************************************************************************)
(* Model of src/driverpackage.py: the DriverPackager class that builds a   *)
(* Control4 driver package (.c4z archive or .c4i single file) from a       *)
(* source tree.  One run of DriverPackager.DriverPackager() is modelled as *)
(* a sequential program; every read of the environment (directory listing, *)
(* file contents, sys.frozen) is a nondeterministic choice made at the     *)
(* statement that performs the read.                                       *)
(*                                                                         *)
(* File names are sequences of segments, the last segment being the        *)
(* extension when it starts with a dot: "driver.xml" is <<"driver",        *)
(* ".xml">>, "a.lua.encrypted" is <<"a", ".lua", ".encrypted">>.           *)
(***************************************************************************)
EXTENDS Integers, Sequences, FiniteSets, TLC

VARIABLES
    args,       \* the argparse.Namespace fields kept by __init__
    pc,         \* position of the run in the code
    trace,      \* the positions the run has passed through, in order
    manifest_xml_filepath, \* the manifest the run decided to build from
    xml_root,   \* the parsed manifest document (root element)
    px,         \* the locals of ParseXml
    c4z,        \* the globals of module build_c4z set through its setters
    bytes_io,   \* self.bytes_io
    proc,       \* the process environment: working directory and PATH
    sq,         \* the locals of Squish / the no-manifest build
    exc,        \* the last exception raised
    ret,        \* how DriverPackager() ended
    effects,    \* the calls and external effects performed so far, in order
    disk        \* read from the source root: the entries os.listdir returned
                \* and the tree UpdateDriverXml parsed from driver.xml

vars == <<args, pc, trace, manifest_xml_filepath, xml_root, px, c4z, bytes_io,
          proc, sq, exc, ret, effects, disk>>

-----------------------------------------------------------------------------
(* Bounds of the model. *)

MaxItems == 2
MaxScripts == 2
MaxDocumentation == 2

-----------------------------------------------------------------------------
(* Program constants. *)

SUCCESS_RETURN_CODE == 0

\* the except branch of CreateFromManifest returning the success code
XML_PARSING_ERROR_CODE_Success == SUCCESS_RETURN_CODE

XML_PARSING_ERROR_CODE == 255

(* errno values an IOError of etree.parse can carry, and parser error codes. *)
Errnos == {2, 13}
ParseErrorCodes == {4}

-----------------------------------------------------------------------------
(* Optional values: None is the empty tuple, a present value x is <<x>>.   *)
(* Attributes whose values are strings use the string NoneV for None.      *)

None == << >>
Some(x) == << x >>
NoneV == "None"

\* self.driver_version is False when no version was supplied; False and the
\* empty string are the values an if statement takes as false
FalseV == "False"
Truthy(v) == v \notin {FalseV, ""}

-----------------------------------------------------------------------------
(* The environment: paths and documents. *)

SourceDirectoryPath == <<"work", "drv">>
DestinationDirectoryPath == <<"out">>
InitialCwd == <<"home">>
InitialPath == <<"/usr/bin">>
ExplicitManifestName == <<"manifest", ".xml">>

DriverXmlName == <<"driver", ".xml">>
EncryptedName == <<"a", ".lua", ".encrypted">>
PlainName == <<"a", ".lua">>
OtherName == <<"readme", ".txt">>
MissingName == <<"gone", ".txt">>
DirName == <<"www">>

ItemPool ==
    { [tag |-> "Item", type |-> "file", name |-> DriverXmlName, exclude |-> NoneV],
      [tag |-> "Item", type |-> "file", name |-> OtherName, exclude |-> NoneV],
      [tag |-> "Item", type |-> "file", name |-> EncryptedName, exclude |-> NoneV],
      [tag |-> "Item", type |-> "file", name |-> MissingName, exclude |-> "true"],
      [tag |-> "Item", type |-> "dir", name |-> DirName, exclude |-> NoneV],
      [tag |-> "Item", type |-> NoneV, name |-> OtherName, exclude |-> NoneV] }

SeqsUpTo(S, n) == UNION { [1..k -> S] : k \in 0..n }

\* the item lists of a manifest: no Item element twice
ItemLists ==
    { l \in SeqsUpTo(ItemPool, MaxItems) :
        \A i, j \in DOMAIN l : i # j => l[i] # l[j] }

PrepackageCommandLists ==
    { None, Some(<< [tag |-> "PrepackageCommand", text |-> "tools/gen"] >>) }

PostpackageCommandLists ==
    { None, Some(<< [tag |-> "PostpackageCommand", text |-> "tools/sign"],
                    [tag |-> "Command", text |-> "tools/other"] >>) }

(* The manifest documents etree.parse can return. *)
ManifestDocs ==
    { d \in [ tag : {"Driver", "Project"},
              type : {NoneV, "c4z", "c4i"},
              name : {NoneV, "drv"},
              squishLua : {NoneV, "true"},
              PrepackageCommands : PrepackageCommandLists,
              PostpackageCommands : PostpackageCommandLists,
              Items : {None} \cup { Some(l) : l \in ItemLists } ] :
        \* at most one of the two command sections
        /\ d.PrepackageCommands = None \/ d.PostpackageCommands = None
        \* of the documents whose root is not Driver, the empty one
        /\ d.tag = "Project" =>
              /\ d.type = NoneV /\ d.name = NoneV /\ d.squishLua = NoneV
              /\ d.PrepackageCommands = None /\ d.PostpackageCommands = None
              /\ d.Items = None }

(* The script nodes of a driver.xml, and the documents it can hold. *)
ScriptPool ==
    { [encryption |-> "2", file |-> "a.lua"],
      [encryption |-> "2", file |-> NoneV],
      [encryption |-> NoneV, file |-> "c.lua"] }

\* the documentation nodes of a driver.xml
DocumentationPool ==
    { [textfile |-> "doc.txt", file |-> "doc.rtf"],
      [textfile |-> NoneV, file |-> NoneV] }

\* modified: the text of the <modified> node, NoneV when the node is absent;
\* version: None when the <version> node is absent, Some(NoneV) when it has no
\* text, Some(text) otherwise
DriverXmlDocs ==
    [ modified : {NoneV, "01/01/2020 01:00 PM"},
      version : {None, Some(NoneV), Some("1")},
      documentation : SeqsUpTo(DocumentationPool, MaxDocumentation),
      scripts : SeqsUpTo(ScriptPool, MaxScripts) ]

-----------------------------------------------------------------------------
(* os.path helpers on segment sequences. *)

IsExtension(seg) ==
    seg \in {".xml", ".lua", ".encrypted", ".c4zproj", ".txt", ".c4z", ".c4i"}

\* os.path.splitext: (name without its last extension, that extension or "")
splitext(name) ==
    IF Len(name) > 1 /\ IsExtension(name[Len(name)])
    THEN << SubSeq(name, 1, Len(name) - 1), name[Len(name)] >>
    ELSE << name, "" >>

\* os.path.basename, the second half of os.path.split
basename(path) == IF Len(path) = 0 THEN "" ELSE path[Len(path)]

\* os.path.join(directory, name)
join(directory, name) == directory \o name

-----------------------------------------------------------------------------
(* Name resolution.  A name that is read without being bound in the        *)
(* function's scope or at module level raises NameError.                   *)

\* names bound at module level when the script runs
ModuleGlobals ==
    { "argparse", "codecs", "datetime", "glob", "BytesIO", "os", "shutil",
      "subprocess", "sys", "tempfile", "Any", "Optional", "zipfile", "etree",
      "c4z", "DriverPackager", "CreateDriverPackagerFromCommandLineArguments" }

\* the same scope with the type and name kept under the names line 265 reads
ParseXmlLocals_OldNames ==
    { "self", "xml_root_element", "root_directory_path", "c4zDriverXmlFound",
      "c4zScriptFile", "c4zDirs", "c4zFiles", "is_for_driver_element",
      "driverType", "driver_type_specified", "driverName",
      "driver_name_specified", "squish_lua", "c4i" }

\* names ParseXml has bound when it forms the package filename
ParseXmlLocals ==
    { "self", "xml_root_element", "root_directory_path", "c4zDriverXmlFound",
      "c4zScriptFile", "c4zDirs", "c4zFiles", "is_for_driver_element",
      "driver_type", "driver_type_specified", "driver_name",
      "driver_name_specified", "squish_lua", "c4i" }

\* names Squish has bound when it extends PATH
SquishLocals ==
    { "self", "root_directory_path", "original_path_environment_variable_value",
      "original_current_working_directory_path", "lua_squish_command",
      "running_as_executable", "executable_path", "executable_directory_path",
      "current_filepath", "current_file_directory_path", "squish_command_path" }

NameDefined(name, locals) == name \in locals \cup ModuleGlobals

NoException == [ type |-> NoneV, msg |-> "" ]
Raise(type, msg) == [ type |-> type, msg |-> msg ]

-----------------------------------------------------------------------------

Running == [ kind |-> "running", code |-> None ]
Returned(code) == [ kind |-> "returned", code |-> Some(code) ]
Uncaught == [ kind |-> "uncaught", code |-> None ]

\* One entry of the log of calls and external effects.  The log names an entry
\* by the call it records: "os.chdir" and "c4z.compress" are the calls a run can
\* reach; "os.system", "c4z.compressLists", "CleanupTmpFile", "xml_tree.write",
\* "shutil.copyfile", "extractall" and "document.write" name calls of statements no run reaches (ParseXml
\* raises at line 250 or at line 265 on every manifest); "UpdateDriverXml" is
\* logged by a direct call of that method.
Effect(op, target, script, xml) ==
    [ op |-> op, target |-> target, script |-> script, xml |-> xml ]

\* a buffer that already holds two serializations of a descriptor
NewBytesIO_Stale ==
    [ obj |-> "BytesIO",
      value |-> << [tag |-> "version", text |-> "1", attrib |-> << >>],
                   [tag |-> "version", text |-> "1", attrib |-> << >>] >> ]

\* BytesIO(): an empty buffer
NewBytesIO == [ obj |-> "BytesIO", value |-> << >> ]

Init ==
    /\ args \in [ manifest_xml_filename : {None, Some(ExplicitManifestName)},
                  allow_execute : BOOLEAN,
                  \* DriverPackager() reads none of the three: ParseXml raises
                  \* before line 565, and UpdateDriverXml is not reached
                  unzip : {TRUE},
                  update_modified : {FALSE},
                  driver_version : {FalseV} ]
    /\ pc = "DriverPackager"
    /\ trace = << >>
    /\ manifest_xml_filepath = None
    /\ xml_root = None
    /\ px = [ c4zDriverXmlFound |-> FALSE, c4zScriptFile |-> "", c4zDirs |-> << >>,
              c4zFiles |-> << >>, driver_type |-> NoneV, driver_name |-> NoneV,
              squish_lua |-> FALSE, c4i |-> FALSE ]
    /\ c4z = [ squishLua_ |-> FALSE, c4i_ |-> FALSE ]
    /\ bytes_io = NewBytesIO
    /\ proc = [ cwd |-> InitialCwd, PATH |-> InitialPath ]
    /\ sq = [ squish_lua |-> FALSE, script_elements |-> None,
              c4z_script_filename |-> NoneV,
              saved_cwd |-> None, saved_PATH |-> None ]
    /\ exc = NoException
    /\ ret = Running
    /\ effects = << >>
    /\ disk = [ listing |-> None, driver_xml_tree |-> None ]

Step(label) == trace' = Append(trace, label)

-----------------------------------------------------------------------------
(* DriverPackager.DriverPackager: locate the manifest.                     *)

\* the directory listings os.listdir can return: an empty directory, one
\* with a project file of another name, one that also has the project file
\* named after the directory
Listings ==
    { {},
      { DriverXmlName, <<"other", ".c4zproj">> },
      { DriverXmlName, <<"other", ".c4zproj">>, <<"drv", ".c4zproj">> } }

\* every project file matches, whatever its base name
MatchingProjectFiles_AnyName(listing) ==
    { f \in listing : splitext(f)[2] = ".c4zproj" }

\* the project files of a listing whose base name is the source directory's
MatchingProjectFiles(listing) ==
    { f \in listing :
        /\ splitext(f)[2] = ".c4zproj"
        /\ splitext(f)[1] = << basename(SourceDirectoryPath) >> }

DriverPackager_LocateManifest ==
    /\ pc = "DriverPackager"
    /\ Step("DriverPackager")
    /\ IF args.manifest_xml_filename # None
       THEN /\ manifest_xml_filepath' =
                 Some(join(SourceDirectoryPath, args.manifest_xml_filename[1]))
            /\ pc' = "CreateFromManifest"
            /\ UNCHANGED disk
       ELSE \E listing \in Listings :     \* os.listdir
              /\ disk' = [disk EXCEPT !.listing = Some(listing)]
              /\ IF MatchingProjectFiles(listing) # {}
                 THEN /\ manifest_xml_filepath' =
                           Some(join(SourceDirectoryPath,
                                     CHOOSE f \in MatchingProjectFiles(listing) : TRUE))
                      /\ pc' = "CreateFromManifest"
                 ELSE /\ manifest_xml_filepath' = None
                      /\ pc' = "NoManifest"
    /\ UNCHANGED <<args, xml_root, px, c4z, bytes_io, proc, sq, exc, ret, effects>>

-----------------------------------------------------------------------------
(* DriverPackager.CreateFromManifest.                                      *)

CreateFromManifest_Parse ==
    /\ pc = "CreateFromManifest"
    /\ Step("CreateFromManifest")
    /\ \/ \E errno \in Errnos :            \* except IOError: return exception.errno
            /\ exc' = Raise("IOError", "Error reading file")
            /\ ret' = Returned(errno)
            /\ pc' = "Exit"
            /\ UNCHANGED xml_root
       \/ \E code \in ParseErrorCodes :    \* except etree.ParseError: return exception.code
            /\ exc' = Raise("ParseError", "Invalid XML")
            /\ ret' = Returned(code)
            /\ pc' = "Exit"
            /\ UNCHANGED xml_root
       \/ \E doc \in ManifestDocs :
            /\ xml_root' = Some(doc)
            /\ pc' = "ParseXml"
            /\ UNCHANGED <<exc, ret>>
    /\ UNCHANGED <<args, manifest_xml_filepath, px, c4z, bytes_io, proc, sq, effects, disk>>

\* except Exception around ParseXml: log and return the generic code
CreateFromManifest_Except ==
    /\ pc = "ParseXmlRaised"
    /\ Step("CreateFromManifest_Except")
    /\ ret' = Returned(XML_PARSING_ERROR_CODE)
    /\ pc' = "Exit"
    /\ UNCHANGED <<args, manifest_xml_filepath, xml_root, px, c4z, bytes_io, proc, sq,
                   exc, effects, disk>>

-----------------------------------------------------------------------------
(* DriverPackager.ParseXml.                                                *)

\* the validation of the root element: the exception it raises, if any
ValidateRoot(root) ==
    IF ~(root.tag = "Driver")
    THEN Raise("Exception", "Missing tag 'Driver'")
    ELSE IF ~(root.type # NoneV)
    THEN Raise("Exception", "Missing tag 'type'")
    ELSE IF root.name # NoneV
    THEN Raise("Exception", "Missing tag 'name'")
    ELSE NoException

ParseXml_Validate ==
    /\ pc = "ParseXml"
    /\ Step("ParseXml_Validate")
    /\ LET root == xml_root[1]
           raised == ValidateRoot(root)
       IN /\ px' = [ c4zDriverXmlFound |-> FALSE, c4zScriptFile |-> "",
                     c4zDirs |-> << >>, c4zFiles |-> << >>,
                     driver_type |-> IF root.tag = "Driver" THEN root.type ELSE NoneV,
                     driver_name |-> IF root.tag = "Driver" /\ root.type # NoneV
                                     THEN root.name ELSE NoneV,
                     squish_lua |-> FALSE, c4i |-> FALSE ]
          /\ exc' = raised
          /\ pc' = IF raised # NoException THEN "ParseXmlRaised" ELSE "ParseXml_Configure"
    /\ UNCHANGED <<args, manifest_xml_filepath, xml_root, c4z, bytes_io, proc, sq, ret,
                   effects, disk>>

ParseXml_Configure ==
    /\ pc = "ParseXml_Configure"
    /\ Step("ParseXml_Configure")
    /\ LET squish_lua == (xml_root[1].squishLua = "true")
           c4i == (px.driver_type = "c4i")
       IN /\ px' = [px EXCEPT !.squish_lua = squish_lua, !.c4i = c4i]
          /\ c4z' = [ squishLua_ |-> squish_lua, c4i_ |-> c4i ]
          /\ bytes_io' = IF c4i THEN [ obj |-> "None", value |-> << >> ] ELSE bytes_io
    /\ pc' = "ParseXml_FormC4zFilename"
    /\ UNCHANGED <<args, manifest_xml_filepath, xml_root, proc, sq, exc, ret, effects, disk>>

\* c4z_filename = '.'.join((driverName, driverType)): neither name is bound, so
\* the statement raises NameError and the statements after it (pre-package
\* commands, item walk, UpdateDriverXml, compressLists, post-processing) never run.
ParseXml_FormC4zFilename ==
    /\ pc = "ParseXml_FormC4zFilename"
    /\ Step("ParseXml_FormC4zFilename")
    /\ IF NameDefined("driverName", ParseXmlLocals) /\ NameDefined("driverType", ParseXmlLocals)
       THEN /\ pc' = "ParseXml_PrepackageCommands"
            /\ UNCHANGED exc
       ELSE /\ exc' = Raise("NameError", "name 'driverName' is not defined")
            /\ pc' = "ParseXmlRaised"
    /\ UNCHANGED <<args, manifest_xml_filepath, xml_root, px, c4z, bytes_io, proc, sq, ret,
                   effects, disk>>

-----------------------------------------------------------------------------
(* DriverPackager.GetEncryptFilename.                                      *)

\* what c4z.GetSquishyOutputFile returns for the source directory
SquishyOutputFile == "squished.lua"

\* a loop in which every script qualifies, whatever its encryption marker
ScanScripts_AnyMarker(scripts, i, squishLua_, c4z_script_file) ==
    IF scripts = << >>
    THEN c4z_script_file
    ELSE IF squishLua_ THEN SquishyOutputFile ELSE scripts[Len(scripts)].file

\* the loop over the script elements: the last script with encryption '2' decides
RECURSIVE ScanScripts(_, _, _, _)
ScanScripts(scripts, i, squishLua_, c4z_script_file) ==
    IF i > Len(scripts)
    THEN c4z_script_file
    ELSE ScanScripts(scripts, i + 1, squishLua_,
                     IF scripts[i].encryption = "2"
                     THEN IF squishLua_ THEN SquishyOutputFile ELSE scripts[i].file
                     ELSE c4z_script_file)

GetEncryptFilename(driver_xml, squishLua_) ==
    ScanScripts(driver_xml.scripts, 1, squishLua_, NoneV)

-----------------------------------------------------------------------------
(* DriverPackager.DriverPackager: the build without a manifest.            *)

NoManifest_ConfigureSquish ==
    /\ pc = "NoManifest"
    /\ Step("NoManifest_ConfigureSquish")
    /\ \E lua_squish_config_file_exists \in BOOLEAN :
         /\ sq' = [sq EXCEPT !.squish_lua = lua_squish_config_file_exists]
         /\ c4z' = [c4z EXCEPT !.squishLua_ = lua_squish_config_file_exists]
    /\ pc' = "NoManifest_GetEncryptFilename"
    /\ UNCHANGED <<args, manifest_xml_filepath, xml_root, px, bytes_io, proc, exc, ret,
                   effects, disk>>

NoManifest_GetEncryptFilename ==
    /\ pc = "NoManifest_GetEncryptFilename"
    /\ Step("NoManifest_GetEncryptFilename")
    /\ \/ \* driver.xml cannot be read: OSError leaves GetEncryptFilename and the build
          /\ exc' = Raise("OSError", "Error reading file driver.xml")
          /\ ret' = Uncaught
          /\ pc' = "Exit"
          /\ UNCHANGED sq
       \/ \* except etree.ParseError: raise Exception, which nothing catches
          /\ exc' = Raise("Exception", "DriverPackager: Invalid XML")
          /\ ret' = Uncaught
          /\ pc' = "Exit"
          /\ UNCHANGED sq
       \/ \E driver_xml \in DriverXmlDocs :
            /\ sq' = [sq EXCEPT !.script_elements = Some(driver_xml.scripts),
                                !.c4z_script_filename =
                                   GetEncryptFilename(driver_xml, c4z.squishLua_)]
            /\ pc' = IF sq.squish_lua THEN "Squish" ELSE "NoManifest_Compress"
            /\ UNCHANGED <<exc, ret>>
    /\ UNCHANGED <<args, manifest_xml_filepath, xml_root, px, c4z, bytes_io, proc, effects, disk>>

\* Squish(self.source_directory_path), up to the statement that extends PATH:
\* it reads the unbound name oldPath, so the try statement that runs the tool
\* and restores the environment in its finally clause is never entered.
Squish ==
    /\ pc = "Squish"
    /\ Step("Squish")
    /\ sq' = [sq EXCEPT !.saved_cwd = Some(proc.cwd), !.saved_PATH = Some(proc.PATH)]
    /\ \E running_as_executable \in BOOLEAN :
         IF NameDefined("oldPath", SquishLocals)
         THEN /\ proc' = [ cwd |-> SourceDirectoryPath,
                           PATH |-> << IF running_as_executable
                                       THEN "executable_directory_path"
                                       ELSE "current_file_directory_path" >> \o proc.PATH ]
              /\ effects' = Append(effects, Effect("os.chdir", SourceDirectoryPath, NoneV, << >>))
              /\ pc' = "Squish_Run"
              /\ UNCHANGED <<exc, ret>>
         ELSE \* NameError before the try statement: its finally clause does not run
              /\ proc' = [proc EXCEPT !.cwd = SourceDirectoryPath]
              /\ effects' = Append(effects, Effect("os.chdir", SourceDirectoryPath, NoneV, << >>))
              /\ exc' = Raise("NameError", "name 'oldPath' is not defined")
              /\ ret' = Uncaught
              /\ pc' = "Exit"
    /\ UNCHANGED <<args, manifest_xml_filepath, xml_root, px, c4z, bytes_io, disk>>

NoManifest_Compress ==
    /\ pc = "NoManifest_Compress"
    /\ Step("NoManifest_Compress")
    /\ effects' = Append(effects,
                         Effect("c4z.compress",
                                join(DestinationDirectoryPath,
                                     << basename(SourceDirectoryPath), ".c4z" >>),
                                sq.c4z_script_filename,
                                bytes_io.value))
    /\ ret' = Returned(SUCCESS_RETURN_CODE)
    /\ pc' = "Exit"
    /\ UNCHANGED <<args, manifest_xml_filepath, xml_root, px, c4z, bytes_io, proc, sq, exc, disk>>

-----------------------------------------------------------------------------
(* DriverPackager.UpdateDriverXml.                                         *)

\* names UpdateDriverXml has bound inside its try block
UpdateDriverXmlLocals ==
    { "self", "driver_xml_filepath", "driver_xml_tree", "driver_xml_root_element",
      "date_modified_xml_element", "date_modified_xml_element_exists",
      "timestamp", "driver_version_xml_element",
      "driver_version_xml_element_exists", "old_version", "old_version_exists" }

Continue(tree) == [ raised |-> NoException, tree |-> tree ]
Abort(e, tree) == [ raised |-> e, tree |-> tree ]

\* lines 611-622.  dateModified is bound nowhere; were it bound, line 614
\* would be reading the node found at line 613.
UpdateModified(tree) ==
    IF ~args.update_modified
    THEN Continue(tree)
    ELSE IF ~NameDefined("dateModified", UpdateDriverXmlLocals)
    THEN Abort(Raise("NameError", "name 'dateModified' is not defined"), tree)
    ELSE IF tree.modified # NoneV
    THEN Abort(Raise("Exception", "<modified> tag not found"), tree)
    ELSE Abort(Raise("AttributeError", "'NoneType' object has no attribute 'text'"),
               tree)

\* lines 625-639.  driverVersion is bound nowhere; were it bound, line 633
\* would be reading the node found at line 627.
UpdateVersion(tree) ==
    IF ~Truthy(args.driver_version)
    THEN Continue(tree)
    ELSE IF tree.version = None
    THEN Abort(Raise("Exception", "<version> tag not found"), tree)
    ELSE IF ~NameDefined("driverVersion", UpdateDriverXmlLocals)
    THEN Abort(Raise("NameError", "name 'driverVersion' is not defined"), tree)
    ELSE IF tree.version = Some(NoneV)
    THEN Abort(Raise("Exception", "empty <version> tag"), tree)
    ELSE Continue([tree EXCEPT !.version = Some(args.driver_version)])

\* lines 611-639: the two updates in order, the second only if the first
\* raised nothing
UpdateTree(tree) ==
    LET m == UpdateModified(tree)
    IN  IF m.raised # NoException THEN m ELSE UpdateVersion(m.tree)

\* What driver_xml_tree.write puts in the buffer: the elements of the tree in
\* document order.  An element whose text is empty is written as an empty
\* element, which reads back as an element without text.
Element(tag, text, attrib) == [ tag |-> tag, text |-> text, attrib |-> attrib ]
SerialText(text) == IF text = "" THEN NoneV ELSE text
Serialize(tree) ==
    (IF tree.modified = NoneV THEN << >>
     ELSE << Element("modified", SerialText(tree.modified), << >>) >>)
    \o (IF tree.version = None THEN << >>
        ELSE << Element("version", SerialText(tree.version[1]), << >>) >>)
    \o [ i \in 1..Len(tree.documentation) |->
           Element("documentation", NoneV,
                   << tree.documentation[i].textfile, tree.documentation[i].file >>) ]
    \o [ i \in 1..Len(tree.scripts) |->
           Element("script", NoneV,
                   << tree.scripts[i].encryption, tree.scripts[i].file >>) ]

\* the except clause that logs and forgets the exception
UpdateDriverXmlExcept_Swallow(e) == NoException

\* lines 643-645: whatever was raised is logged and replaced
UpdateDriverXmlExcept(e) == Raise("Exception", "Unable to update driver.xml")

ReturnedNone == [ kind |-> "returned", code |-> None ]

\* UpdateDriverXml(driver_xml_filepath), called on a constructed packager
UpdateDriverXml ==
    /\ pc = "UpdateDriverXml"
    /\ Step("UpdateDriverXml")
    /\ pc' = "Exit"
    /\ effects' = Append(effects,
                         Effect("UpdateDriverXml",
                                join(SourceDirectoryPath, DriverXmlName), NoneV,
                                bytes_io.value))
    /\ \/ \* etree.parse raises: the file cannot be read or is not XML
          \E e \in { Raise("IOError", "Error reading file"),
                     Raise("ParseError", "XMLSyntaxError") } :
            /\ exc' = UpdateDriverXmlExcept(e)
            /\ ret' = IF exc' = NoException THEN ReturnedNone ELSE Uncaught
            /\ UNCHANGED <<bytes_io, disk>>
       \/ \E driver_xml \in DriverXmlDocs :
            LET r == UpdateTree(driver_xml)
                w == IF r.raised # NoException THEN r.raised
                     ELSE IF bytes_io.obj = NoneV
                     THEN Raise("TypeError", "File or filename expected")
                     ELSE NoException
            IN  /\ disk' = [disk EXCEPT !.driver_xml_tree = Some(driver_xml)]
                /\ IF w = NoException
                   THEN /\ bytes_io' = [bytes_io EXCEPT
                                          !.value = @ \o Serialize(r.tree)]
                        /\ exc' = NoException
                        /\ ret' = ReturnedNone
                   ELSE /\ exc' = UpdateDriverXmlExcept(w)
                        /\ ret' = IF exc' = NoException THEN ReturnedNone
                                  ELSE Uncaught
                        /\ UNCHANGED bytes_io
    /\ UNCHANGED <<args, manifest_xml_filepath, xml_root, px, c4z, proc, sq>>

-----------------------------------------------------------------------------
Next ==
    \/ DriverPackager_LocateManifest
    \/ CreateFromManifest_Parse
    \/ CreateFromManifest_Except
    \/ ParseXml_Validate
    \/ ParseXml_Configure
    \/ ParseXml_FormC4zFilename
    \/ NoManifest_ConfigureSquish
    \/ NoManifest_GetEncryptFilename
    \/ Squish
    \/ NoManifest_Compress

Spec == Init /\ [][Next]_vars

\* the run is a sequential program: it keeps executing until it exits
FairSpec == Spec /\ WF_vars(Next)

\* The public method UpdateDriverXml called once on a freshly constructed
\* packager, for every setting of the two options it reads.
UpdaterInit ==
    /\ args \in [ manifest_xml_filename : {None},
                  allow_execute : {FALSE},
                  unzip : {FALSE},
                  update_modified : BOOLEAN,
                  driver_version : {FalseV, "", "2"} ]
    /\ pc = "UpdateDriverXml"
    /\ trace = << >>
    /\ manifest_xml_filepath = None
    /\ xml_root = None
    /\ px = [ c4zDriverXmlFound |-> FALSE, c4zScriptFile |-> "", c4zDirs |-> << >>,
              c4zFiles |-> << >>, driver_type |-> NoneV, driver_name |-> NoneV,
              squish_lua |-> FALSE, c4i |-> FALSE ]
    /\ c4z = [ squishLua_ |-> FALSE, c4i_ |-> FALSE ]
    /\ bytes_io = NewBytesIO
    /\ proc = [ cwd |-> InitialCwd, PATH |-> InitialPath ]
    /\ sq = [ squish_lua |-> FALSE, script_elements |-> None,
              c4z_script_filename |-> NoneV,
              saved_cwd |-> None, saved_PATH |-> None ]
    /\ exc = NoException
    /\ ret = Running
    /\ effects = << >>
    /\ disk = [ listing |-> None, driver_xml_tree |-> None ]

UpdaterNext == UpdateDriverXml

UpdaterSpec == UpdaterInit /\ [][UpdaterNext]_vars

-----------------------------------------------------------------------------
(* Vocabulary of the properties.                                           *)

Done == pc = "Exit"
ManifestParsed == xml_root # None
Root == xml_root[1]
Called(op) == \E i \in DOMAIN effects : effects[i].op = op
CallCount(op) == Cardinality({ i \in DOMAIN effects : effects[i].op = op })
ResolvedNames(list) == { list[i].name : i \in DOMAIN list }

InTrace(label) == \E i \in DOMAIN trace : trace[i] = label
TraceCount(label) == Cardinality({ i \in DOMAIN trace : trace[i] = label })

\* an Item element without the attribute type
TypelessItem == [tag |-> "Item", type |-> NoneV, name |-> OtherName, exclude |-> NoneV]

\* the project file named after the source directory
ProjectFile == << basename(SourceDirectoryPath), ".c4zproj" >>

DirItem(name) == [tag |-> "Item", type |-> "dir", name |-> name, exclude |-> NoneV]

\* the buffer content v is nothing or one serialization of a descriptor
AtMostOneSerialization(v) ==
    v = << >> \/ \E d \in DriverXmlDocs : v = Serialize(d)

\* the positions in the log of the calls of op
Calls(op) == { i \in DOMAIN effects : effects[i].op = op }

FileItem(name) == [tag |-> "Item", type |-> "file", name |-> name, exclude |-> NoneV]
ExcludedFileItem(name) == [tag |-> "Item", type |-> "file", name |-> name, exclude |-> "true"]

\* a manifest with root Driver, a type, a name and the given item list
WellFormedManifest(type, squishLua, items) ==
    /\ ManifestParsed
    /\ Root.tag = "Driver"
    /\ Root.type = type
    /\ Root.name = "drv"
    /\ Root.squishLua = squishLua
    /\ Root.Items = Some(items)

\* the pipeline stage a position of the code belongs to
Stage(label) ==
    CASE label \in {"DriverPackager", "CreateFromManifest"} -> "LOCATE_MANIFEST"
      [] label \in {"ParseXml_Validate", "ParseXml_Configure",
                    "ParseXml_FormC4zFilename"} -> "VALIDATE"
      [] label = "ParseXml_PrepackageCommands" -> "PREPACKAGE"
      [] label = "ParseXml_Items" -> "RESOLVE_ITEMS"
      [] label = "UpdateDriverXml" -> "UPDATE_DESCRIPTOR"
      [] label = "c4z.compressLists" -> "EMIT_ARCHIVE"
      [] label = "ParseXml_PostProcess" -> "POSTPROCESS_FORMAT"
      [] label = "ParseXml_PostpackageCommands" -> "POSTPACKAGE"
      [] label = "CleanupTmpFile" -> "CLEANUP"
      [] OTHER -> "FAILED"

\* the stages of a trace, in order, each maximal run of one stage counted once
RECURSIVE Stages(_)
Stages(t) ==
    IF Len(t) = 0 THEN << >>
    ELSE LET rest == Stages(SubSeq(t, 1, Len(t) - 1))
             s == Stage(t[Len(t)])
         IN IF Len(rest) > 0 /\ rest[Len(rest)] = s THEN rest ELSE Append(rest, s)

PipelineOrder ==
    << "LOCATE_MANIFEST", "VALIDATE", "PREPACKAGE", "RESOLVE_ITEMS", "UPDATE_DESCRIPTOR",
       "EMIT_ARCHIVE", "POSTPROCESS_FORMAT", "POSTPACKAGE", "CLEANUP" >>

-----------------------------------------------------------------------------
(* C1: the end-to-end archive build.  For a manifest with root Driver,     *)
(* type c4z, a name, squish disabled and the items driver.xml and one      *)
(* other existing file, CreateFromManifest returns 0 after exactly one     *)
(* compressLists call that carries the other file and the serialized       *)
(* descriptor.  Stated as the claim; the code violates it.                 *)
C1_ArchiveBuildSucceeds ==
    (Done /\ WellFormedManifest("c4z", NoneV, << FileItem(DriverXmlName), FileItem(OtherName) >>))
        => /\ ret = Returned(SUCCESS_RETURN_CODE)
           /\ CallCount("c4z.compressLists") = 1
           /\ OtherName \in ResolvedNames(px.c4zFiles)

(* C2: on every exit from Squish the working directory and PATH have the   *)
(* values they had when Squish was called.  Stated as the claim; the code  *)
(* violates it.                                                            *)
C2_SquishRestoresEnvironment ==
    (sq.saved_cwd # None /\ pc # "Squish_Run")
        => /\ proc.cwd = sq.saved_cwd[1]
           /\ proc.PATH = sq.saved_PATH[1]

(* C3: every fatal exit from ParseXml is preceded by a call of             *)
(* CleanupTmpFile.  Stated as the claim; the code violates it.             *)
C3_FatalExitRunsCleanup ==
    (Done /\ ManifestParsed /\ exc # NoException) => Called("CleanupTmpFile")

(* C4: DriverPackager() always returns an integer, 0 exactly when the      *)
(* build completed every step and non-zero on every failure; no failure    *)
(* escapes as an uncaught exception.  Stated as the claim; the code        *)
(* violates it.                                                            *)
C4_ReturnCodeContract ==
    Done => /\ ret.kind = "returned"
            /\ (ret.code = Some(SUCCESS_RETURN_CODE)) <=> (exc = NoException)

(* C5: a manifest-driven build that should succeed passes through the      *)
(* pipeline stages locate, validate, pre-package, resolve, update, emit,   *)
(* post-process, post-package, cleanup, in that order.  Stated for the     *)
(* well-formed archive manifest of C1; the code violates it.               *)
C5_PipelineOrder ==
    (Done /\ WellFormedManifest("c4z", NoneV, << FileItem(DriverXmlName), FileItem(OtherName) >>))
        => Stages(trace) = PipelineOrder

(* C6: a manifest whose root lacks 'type' or 'name' makes ParseXml fail    *)
(* before any pre-package command, any change of driver.lua, any           *)
(* descriptor backup, any Descriptor Updater or Archive Emitter call: the  *)
(* run never gets past the validation of the root, performs no call or     *)
(* external effect, writes nothing to the descriptor buffer, and ends with *)
(* the generic failure code.                                               *)
C6_MissingTypeOrNameFailsEarly ==
    (ManifestParsed /\ (Root.type = NoneV \/ Root.name = NoneV))
        => /\ pc \in {"ParseXml", "ParseXml_Configure", "ParseXml_FormC4zFilename",
                      "ParseXmlRaised", "Exit"}
           /\ effects = << >>
           /\ bytes_io.value = << >>
           /\ Done => (exc # NoException /\ ret = Returned(XML_PARSING_ERROR_CODE))

\* a manifest that has a type and pre-package commands but no name has failed
C6_Witness ==
    /\ Done
    /\ ManifestParsed
    /\ Root.tag = "Driver" /\ Root.type = "c4z" /\ Root.name = NoneV
    /\ Root.PrepackageCommands # None
    /\ args.allow_execute
    /\ exc # NoException
    /\ ret = Returned(XML_PARSING_ERROR_CODE)

(* C7: a manifest of type c4i whose squish flag is not 'true' makes the    *)
(* build fail: the run ends, with a non-zero return code and an exception  *)
(* raised, and up to then neither UpdateDriverXml nor compressLists has    *)
(* been called, whether or not the item list holds driver.xml.             *)
C7_C4iWithoutSquishFails ==
    /\ [](( ManifestParsed /\ Root.type = "c4i" /\ Root.squishLua # "true")
            => (~Called("UpdateDriverXml") /\ ~Called("c4z.compressLists")))
    /\ [](( ManifestParsed /\ Root.type = "c4i" /\ Root.squishLua # "true")
            => <>( /\ Done
                   /\ exc # NoException
                   /\ ret.kind = "returned"
                   /\ ret.code # Some(SUCCESS_RETURN_CODE) ))

\* a c4i manifest with a name-less valid root, squish unset and no driver.xml item failed
C7_Witness ==
    /\ Done
    /\ ManifestParsed
    /\ Root.tag = "Driver" /\ Root.type = "c4i" /\ Root.name = NoneV
    /\ Root.squishLua = NoneV
    /\ Root.Items = Some(<< FileItem(OtherName) >>)
    /\ ret = Returned(XML_PARSING_ERROR_CODE)
    /\ bytes_io.obj = "None"

(* C8: the end-to-end single-file build.  For a manifest of type c4i with  *)
(* squish enabled and the item driver.xml the build returns 0 and writes   *)
(* the final artifact once.  Stated as the claim; the code violates it.    *)
C8_SingleFileBuildSucceeds ==
    (Done /\ WellFormedManifest("c4i", "true", << FileItem(DriverXmlName) >>))
        => /\ ret = Returned(SUCCESS_RETURN_CODE)
           /\ CallCount("document.write") = 1

(* C9: an excluded Item never appears in the resolved lists, and an        *)
(* excluded Item whose name does not exist does not make resolution fail.  *)
(* Stated as the claim for the item list <driver.xml, excluded missing     *)
(* file>; the code violates it.                                            *)
C9_ExcludedItemIsSkipped ==
    (Done /\ WellFormedManifest("c4z", NoneV,
                                << FileItem(DriverXmlName), ExcludedFileItem(MissingName) >>))
        => /\ MissingName \notin ResolvedNames(px.c4zFiles) \cup ResolvedNames(px.c4zDirs)
           /\ exc = NoException

(* C10: a non-excluded file Item named *.encrypted is existence-checked    *)
(* and recorded under the name without the suffix when an encrypted script *)
(* was detected, and under its literal name otherwise; so after the walk   *)
(* it is in the resolved file list under one of the two names, or the walk *)
(* reported that name missing.  Stated as the claim for the item list      *)
(* <driver.xml, a.lua.encrypted>; the code violates it.                    *)
C10_EncryptedSuffixResolution ==
    (Done /\ WellFormedManifest("c4z", NoneV,
                                << FileItem(DriverXmlName), FileItem(EncryptedName) >>))
        => \/ ResolvedNames(px.c4zFiles) \cap {PlainName, EncryptedName} # {}
           \/ exc = Raise("Exception", "manifest 'file' Item does not exist")

(* C11: the version round trip.  When a new version string is supplied and *)
(* the descriptor has a version node with text, UpdateDriverXml succeeds   *)
(* and the buffer holds the descriptor with the version text replaced by   *)
(* the supplied string and every other node as it was.  Stated as the      *)
(* claim; the code violates it.                                            *)
C11_VersionRoundTrip ==
    (/\ Done
     /\ Truthy(args.driver_version)
     /\ ~args.update_modified
     /\ disk.driver_xml_tree # None
     /\ disk.driver_xml_tree[1].version \notin {None, Some(NoneV)})
        => /\ exc = NoException
           /\ bytes_io.value =
                Serialize([disk.driver_xml_tree[1] EXCEPT
                             !.version = Some(args.driver_version)])

(* C12: documentation injection leaves exactly one documentation node.     *)
(* For a manifest with the item driver.xml the build rewrites driver.xml   *)
(* with a single documentation node, so the tree UpdateDriverXml then      *)
(* parses has exactly one.  Stated as the claim; the code violates it.     *)
C12_DocumentationInjectedOnce ==
    (Done /\ WellFormedManifest("c4z", NoneV, << FileItem(DriverXmlName) >>))
        => /\ disk.driver_xml_tree # None
           /\ Called("xml_tree.write")
                => Len(disk.driver_xml_tree[1].documentation) = 1

(* C13: every call of the archive emitter, compress or compressLists, is   *)
(* preceded in the same build by a call of UpdateDriverXml, and the        *)
(* descriptor bytes it is given are not empty.  Stated as the claim; the   *)
(* code violates it.                                                       *)
C13_EmitterGetsUpdaterBytes ==
    \A i \in DOMAIN effects :
        effects[i].op \in {"c4z.compress", "c4z.compressLists"}
            => /\ \E j \in 1..(i - 1) : effects[j].op = "UpdateDriverXml"
               /\ effects[i].xml # << >>

(* C14: a manifest whose item list has no file Item named driver.xml makes *)
(* the build fail with the error that driver.xml was not found, before     *)
(* UpdateDriverXml and compressLists are called.  Stated as the claim for  *)
(* the item list <readme.txt>; the code violates it.                       *)
C14_MissingDriverXmlFails ==
    (Done /\ WellFormedManifest("c4z", NoneV, << FileItem(OtherName) >>))
        => /\ exc = Raise("Exception",
                          "DriverPackager: Error, manifest 'file' Item 'driver.xml' was not found.")
           /\ ~Called("UpdateDriverXml")
           /\ ~Called("c4z.compressLists")

(* C15: an Item element without the attribute type makes the build fail    *)
(* with the error naming the missing attribute, and CleanupTmpFile has run *)
(* by then.  Stated as the claim for the item list <driver.xml, an Item    *)
(* without type>; the code violates it.                                    *)
C15_ItemWithoutTypeFailsAfterCleanup ==
    (Done /\ WellFormedManifest("c4z", NoneV, << FileItem(DriverXmlName), TypelessItem >>))
        => /\ exc = Raise("Exception",
                          "DriverPackager: Invalid XML: Missing tag 'Item' subtag 'type'")
           /\ Called("CleanupTmpFile")

(* C16: the pre-package commands of a manifest are run, and the exit       *)
(* status of a command does not fail the build.  Stated as the claim for a *)
(* manifest with one pre-package command and the item driver.xml; the code *)
(* violates it.                                                            *)
C16_PrepackageCommandsRun ==
    (/\ Done
     /\ WellFormedManifest("c4z", NoneV, << FileItem(DriverXmlName) >>)
     /\ Root.PrepackageCommands # None)
        => /\ CallCount("os.system") = Len(Root.PrepackageCommands[1])
           /\ exc # Raise("Exception", "Failed to execute prepackage command.")

C18_SquishFailureNamesDirectory ==
    (Done /\ InTrace("Squish") /\ exc # NoException)
        => /\ exc.type = "Exception"
           /\ exc.msg \in
                { "DriverPackager: Lua squish failed: CalledProcessError while processing work/drv",
                  "DriverPackager: Error squishing lua OSError while processing work/drv" }

(* C19: for a manifest with squishLua 'true' and the item driver.xml,      *)
(* Squish is invoked exactly once, before UpdateDriverXml and the emitter. *)
(* Stated as the claim; the code violates it.                              *)
C19_SquishInvokedOnce ==
    (Done /\ WellFormedManifest("c4z", "true", << FileItem(DriverXmlName) >>))
        => TraceCount("Squish") = 1

(* C20: UpdateDriverXml fails, with nothing written to the buffer, when    *)
(* the modified date is to be updated and the descriptor has no modified   *)
(* node, when a version is supplied and the descriptor has no version      *)
(* node, and when a version is supplied and the version node has no text.  *)
C20_MissingNodeFailsWithoutWriting ==
    (/\ Done
     /\ disk.driver_xml_tree # None
     /\ \/ args.update_modified /\ disk.driver_xml_tree[1].modified = NoneV
        \/ Truthy(args.driver_version) /\ disk.driver_xml_tree[1].version = None
        \/ Truthy(args.driver_version) /\ disk.driver_xml_tree[1].version = Some(NoneV))
        => /\ exc = Raise("Exception", "Unable to update driver.xml")
           /\ ret = Uncaught
           /\ bytes_io.value = << >>

\* a version was supplied, the modified date is left alone, and the call on
\* a descriptor whose version node has no text has ended
C20_Witness ==
    /\ Done
    /\ Truthy(args.driver_version)
    /\ ~args.update_modified
    /\ disk.driver_xml_tree # None
    /\ disk.driver_xml_tree[1].version = Some(NoneV)

(* C21: UpdateDriverXml with the modified date to be updated and a         *)
(* modified node present succeeds and serializes the descriptor with only  *)
(* that node's text replaced; with neither option set it serializes the    *)
(* descriptor with no node changed.  Stated as the claim; the code         *)
(* violates it.                                                            *)
C21_ModifiedUpdatedOrNothingChanged ==
    (/\ Done
     /\ disk.driver_xml_tree # None
     /\ ~Truthy(args.driver_version))
        => LET tree == disk.driver_xml_tree[1]
           IN  IF ~args.update_modified
               THEN /\ exc = NoException
                    /\ bytes_io.value = Serialize(tree)
               ELSE tree.modified # NoneV
                      => /\ exc = NoException
                         /\ Len(bytes_io.value) >= 1
                         /\ bytes_io.value[1].text # tree.modified
                         /\ bytes_io.value =
                              Serialize([tree EXCEPT !.modified = bytes_io.value[1].text])

C23_MissingTextfileIsNotFatal ==
    (Done /\ WellFormedManifest("c4z", NoneV, << FileItem(DriverXmlName) >>))
        => /\ px.c4zDriverXmlFound
           /\ exc.type # "IOError"
           /\ Called("UpdateDriverXml")

(* C24: the documentation node written by the injection carries the        *)
(* attribute file only for a manifest of type c4z, and has no textfile     *)
(* attribute.  Stated as the claim for a c4i manifest with squish enabled  *)
(* and the item driver.xml; the code violates it.                          *)
C24_FileAttributeOnlyForC4z ==
    (Done /\ WellFormedManifest("c4i", "true", << FileItem(DriverXmlName) >>))
        => /\ disk.driver_xml_tree # None
           /\ Called("xml_tree.write")
                => LET docs == disk.driver_xml_tree[1].documentation
                   IN  /\ Len(docs) = 1
                       /\ docs[1].textfile = NoneV
                       /\ docs[1].file = NoneV

(* C25: GetEncryptFilename returns none when no script element has the     *)
(* encryption marker '2'; otherwise the last such script decides: the      *)
(* squished output file if squishing is enabled, that script's file        *)
(* attribute if not.                                                       *)
C25_LastEncryptedScriptDecides ==
    sq.script_elements # None =>
        LET scripts == sq.script_elements[1]
            qualifying == { i \in DOMAIN scripts : scripts[i].encryption = "2" }
        IN  IF qualifying = {}
            THEN sq.c4z_script_filename = NoneV
            ELSE LET last == CHOOSE i \in qualifying : \A j \in qualifying : j <= i
                 IN  sq.c4z_script_filename =
                       IF c4z.squishLua_ THEN "squished.lua" ELSE scripts[last].file

\* squishing is off, and a script with marker '2' is followed by one without
C25_Witness ==
    /\ sq.script_elements =
         Some(<< [encryption |-> "2", file |-> "a.lua"],
                 [encryption |-> NoneV, file |-> "c.lua"] >>)
    /\ ~c4z.squishLua_
    /\ sq.c4z_script_filename = "a.lua"

(* C26: the post-package commands of a manifest are run after the archive  *)
(* is emitted: one os.system call for each child with the tag              *)
(* PostpackageCommand.  Stated as the claim for a manifest with the item   *)
(* driver.xml and a PostpackageCommands section; the code violates it.     *)
C26_PostpackageCommandsRun ==
    (/\ Done
     /\ WellFormedManifest("c4z", NoneV, << FileItem(DriverXmlName) >>)
     /\ Root.PostpackageCommands # None)
        => LET children == Root.PostpackageCommands[1]
           IN  CallCount("os.system") =
                 Cardinality({ i \in DOMAIN children :
                                 children[i].tag = "PostpackageCommand" })

(* C27: a directory Item that is not excluded appends one directory spec,  *)
(* with recurse false and an empty target directory when the attributes    *)
(* are absent, and adds nothing to the file list.  Stated as the claim for *)
(* the item list <driver.xml, www>; the code violates it.                  *)
C27_DirectoryItemResolved ==
    (Done /\ WellFormedManifest("c4z", NoneV, << FileItem(DriverXmlName), DirItem(DirName) >>))
        => /\ px.c4zDirs = << [c4zDir |-> "", recurse |-> FALSE, name |-> DirName] >>
           /\ DirName \notin ResolvedNames(px.c4zFiles)

(* C28: the build without a manifest, once driver.xml has been scanned,    *)
(* invokes Squish once if the squishy file exists and never otherwise, and *)
(* writes the archive to the destination under the source directory's name *)
(* with extension .c4z.  Stated as the claim; the code violates it.        *)
C28_NoManifestBuildWritesArchive ==
    (Done /\ sq.script_elements # None)
        => /\ TraceCount("Squish") = IF sq.squish_lua THEN 1 ELSE 0
           /\ \E i \in DOMAIN effects :
                /\ effects[i].op = "c4z.compress"
                /\ effects[i].target = << "out", "drv", ".c4z" >>

(* C29: with the unzip flag set, a build of type c4z extracts the archive  *)
(* after emitting it.  Stated as the claim for a manifest with the item    *)
(* driver.xml; the code violates it.                                       *)
C29_ArchiveExtractedWhenUnzipSet ==
    (/\ Done
     /\ args.unzip
     /\ WellFormedManifest("c4z", NoneV, << FileItem(DriverXmlName) >>))
        => /\ Called("c4z.compressLists")
           /\ Called("extractall")

(* C30: ParseXml raises no false validation error: the error that the      *)
(* name is missing is raised only for a root without the attribute name.   *)
(* Stated as the claim; the code violates it.                              *)
C30_NoFalseValidationError ==
    (ManifestParsed /\ exc = Raise("Exception", "Missing tag 'name'"))
        => Root.name = NoneV

(* C31: with interactive execution enabled, a manifest build succeeds with *)
(* driver.lua backed up to driver.lua.tmp before the archive emitter runs  *)
(* and restored by CleanupTmpFile only after it has returned; with it      *)
(* disabled the build copies and restores nothing.  Stated as the claim    *)
(* for a manifest with the item driver.xml; the code violates it.          *)
C31_DriverLuaBackedUpAndRestored ==
    (Done /\ WellFormedManifest("c4z", NoneV, << FileItem(DriverXmlName) >>))
        => IF args.allow_execute
           THEN /\ ret = Returned(SUCCESS_RETURN_CODE)
                /\ Calls("shutil.copyfile") # {}
                /\ Calls("c4z.compressLists") # {}
                /\ Calls("CleanupTmpFile") # {}
                /\ \A b \in Calls("shutil.copyfile"), e \in Calls("c4z.compressLists"),
                      r \in Calls("CleanupTmpFile") : b < e /\ e < r
           ELSE Calls("shutil.copyfile") = {}
====
